---- MODULE Spec2Model ----
(***************************************************************************)
(* Stripe billing webhook relay.                                           *)
(*                                                                         *)
(* src/index.js: the Cloud Run handler that verifies the Stripe signature, *)
(* filters by event type, simplifies the event and forwards it to Apps     *)
(* Script with a manual redirect loop that keeps the POST.                 *)
(* src/stripe-webhook-forwarder/index.js: the forwarder deployment of the  *)
(* same handler, which hands redirects to fetch (redirect: "follow").      *)
(***************************************************************************)
EXTENDS Integers, Sequences, FiniteSets, TLC

(***************************************************************************)
(* JavaScript / JSON values, tagged by their type.                         *)
(***************************************************************************)
Undef == [t |-> "undefined"]
Null == [t |-> "null"]
Str(s) == [t |-> "string", s |-> s]
Num(n) == [t |-> "number", n |-> n]
\* An ISO-8601 instant string "YYYY-MM-DDTHH:MM:SS.mmmZ", kept by its fields.
IsoStr(y, mo, d, h, mi, s) == [t |-> "string", iso |-> <<y, mo, d, h, mi, s, 0>>]
\* A decimal number n/100 (amount in dollars), kept as whole and hundredths.
Dec(n) == [t |-> "number", whole |-> n \div 100, hundredths |-> n % 100]
NaN == [t |-> "number", nan |-> TRUE]
\* A mapping (metadata), kept by its set of key/value pairs.
Map(pairs) == [t |-> "object", pairs |-> pairs]

\* JavaScript truthiness: undefined, null, "" and 0 are falsy.
Truthy(v) ==
  /\ v # Undef
  /\ v # Null
  /\ v # Str("")
  /\ v # Num(0)

\* a || b
OrElse(a, b) == IF Truthy(a) THEN a ELSE b

\* x != null (loose): neither null nor undefined.
NotNullish(v) == v # Undef /\ v # Null

(***************************************************************************)
(* new Date(sec * 1000).toISOString()                                      *)
(***************************************************************************)
\* v * 1000 is a finite time value for a number; for text that is not
\* numeric it is NaN, and toISOString raises RangeError on it.
IsValidTime(v) == v.t = "number"

NumberOf(v) == IF v.t = "number" THEN v.n ELSE 0

\* Civil date of a day count since 1970-01-01 (proleptic Gregorian calendar).
CivilFromDays(days) ==
  LET z == days + 719468
      era == z \div 146097
      doe == z - era * 146097
      yoe == (doe - doe \div 1460 + doe \div 36524 - doe \div 146096) \div 365
      doy == doe - (365 * yoe + yoe \div 4 - yoe \div 100)
      mp == (5 * doy + 2) \div 153
      d == doy - (153 * mp + 2) \div 5 + 1
      m == IF mp < 10 THEN mp + 3 ELSE mp - 9
      y == yoe + era * 400 + (IF m <= 2 THEN 1 ELSE 0)
  IN <<y, m, d>>

ToISOString(sec) ==
  LET ymd == CivilFromDays(sec \div 86400)
      rem == sec % 86400
  IN IsoStr(ymd[1], ymd[2], ymd[3], rem \div 3600, (rem % 3600) \div 60, rem % 60)

(***************************************************************************)
(* URLs and  new URL(loc, currentUrl).toString()                           *)
(***************************************************************************)
Url(origin, path, query) == [origin |-> origin, path |-> path, query |-> query]

NoLoc == [k |-> "none"]
EmptyLoc == [k |-> "empty"]
InvalidLoc == [k |-> "invalid"]
AbsLoc(u) == [k |-> "absolute", url |-> u]
PathLoc(path, query) == [k |-> "path", path |-> path, query |-> query]
RelLoc(seg, query) == [k |-> "relative", seg |-> seg, query |-> query]

\* Variant: the Location is not tested before it is followed.
LocTruthy_Always(loc) == TRUE

\* if (... && loc): headers.get returns null without the header, "" when empty.
LocTruthy(loc) == loc.k \notin {"none", "empty"}

\* new URL(loc, base) raises TypeError when loc does not parse.
CanResolve(loc) == loc.k \in {"absolute", "path", "relative"}

DropLast(s) == IF Len(s) = 0 THEN s ELSE SubSeq(s, 1, Len(s) - 1)

ResolveUrl(loc, base) ==
  CASE loc.k = "absolute" -> loc.url
    [] loc.k = "path" -> Url(base.origin, loc.path, loc.query)
    [] loc.k = "relative" -> Url(base.origin, Append(DropLast(base.path), loc.seg), loc.query)
    [] OTHER -> base

(***************************************************************************)
(* Events                                                                  *)
(***************************************************************************)
\* An event type is kept by its dot-separated segments: invoice.paid is
\* <<"invoice", "paid">>.
InvoicePaid == <<"invoice", "paid">>
InvoicePaymentFailed == <<"invoice", "payment_failed">>
InvoiceFinalized == <<"invoice", "finalized">>
InvoiceVoided == <<"invoice", "voided">>
ChargeSucceeded == <<"charge", "succeeded">>

EventTypes == {InvoicePaid, InvoiceVoided, ChargeSucceeded}

\* event.type.startsWith("invoice.")
StartsWithInvoice(type) == Len(type) >= 2 /\ type[1] = "invoice"

\* event.data.object as a mapping; status_transitions.paid_at is kept flat.
Obj(fields) == [t |-> "object", f |-> fields]

EmptyFields ==
  [id |-> Undef, object |-> Undef, status |-> Undef, hosted_invoice_url |-> Undef,
   amount_due |-> Undef, currency |-> Undef, created |-> Undef, paid_at |-> Undef,
   customer |-> Undef, number |-> Undef, metadata |-> Undef]

FullFields ==
  [id |-> Str("in_1"), object |-> Str("invoice"), status |-> Str("paid"),
   hosted_invoice_url |-> Str("https://invoice.stripe.com/i/1"),
   amount_due |-> Num(1050), currency |-> Str("eur"), created |-> Num(1700000000),
   paid_at |-> Num(1700000100), customer |-> Str("cus_1"), number |-> Str("INV-1"),
   metadata |-> Map({<<"businessId", "b1">>})]

Objects ==
  {Obj(EmptyFields), Obj(FullFields), Null,
   Obj([FullFields EXCEPT !.created = Num(0)]),
   Obj([FullFields EXCEPT !.created = Str("soon")]),
   Obj([FullFields EXCEPT !.paid_at = Str("later"), !.amount_due = Undef])}

EventIds == {Str("evt_1A"), Str("evt_2B")}

Events == [id : EventIds, type : EventTypes, object : Objects]

(***************************************************************************)
(* simplifyStripeEvent_                                                    *)
(***************************************************************************)
\* const obj = event?.data?.object || {}
ObjOf(event) == OrElse(event.object, Obj(EmptyFields))

\* obj.<name>: undefined on anything that is not a mapping.
Field(obj, name) == IF obj.t = "object" /\ "f" \in DOMAIN obj THEN obj.f[name] ELSE Undef

\* x ? new Date(x * 1000).toISOString() : ""
TimeField(v) == IF Truthy(v) THEN ToISOString(NumberOf(v)) ELSE Str("")

\* new Date(NaN).toISOString() raises RangeError.
TimeFieldThrows(v) == Truthy(v) /\ ~IsValidTime(v)

\* obj?.status_transitions?.paid_at ?? null
PaidAtUnix(obj) == IF NotNullish(Field(obj, "paid_at")) THEN Field(obj, "paid_at") ELSE Null

\* Variant: an absent amount counts as 0.
AmountDue_ZeroWhenAbsent(v) == IF NotNullish(v) /\ v.t = "number" THEN Dec(v.n) ELSE Dec(0)

\* obj.amount_due != null ? Number(obj.amount_due) / 100 : null
AmountDue(v) ==
  IF NotNullish(v)
  THEN (IF v.t = "number" THEN Dec(v.n) ELSE NaN)
  ELSE Null

SimplifyThrows(event) ==
  /\ StartsWithInvoice(event.type)
  /\ \/ TimeFieldThrows(Field(ObjOf(event), "created"))
     \/ TimeFieldThrows(PaidAtUnix(ObjOf(event)))

simplifyStripeEvent_(event) ==
  LET obj == ObjOf(event) IN
  IF StartsWithInvoice(event.type)
  THEN <<
    <<"invoiceId", OrElse(Field(obj, "id"), Str(""))>>,
    <<"status", OrElse(Field(obj, "status"), Str(""))>>,
    <<"hostedInvoiceUrl", OrElse(Field(obj, "hosted_invoice_url"), Str(""))>>,
    <<"amountDue", AmountDue(Field(obj, "amount_due"))>>,
    <<"currency", OrElse(Field(obj, "currency"), Str("usd"))>>,
    <<"createdAt", TimeField(Field(obj, "created"))>>,
    <<"paidAt", TimeField(PaidAtUnix(obj))>>,
    <<"customer", OrElse(Field(obj, "customer"), Str(""))>>,
    <<"number", OrElse(Field(obj, "number"), Str(""))>>,
    <<"metadata", OrElse(Field(obj, "metadata"), Map({}))>> >>
  ELSE <<
    <<"rawType", [t |-> "string", type |-> event.type]>>,
    <<"objectId", OrElse(Field(obj, "id"), Str(""))>>,
    <<"objectType", OrElse(Field(obj, "object"), Str(""))>> >>

(***************************************************************************)
(* JSON.stringify and the destination's reading of the document            *)
(***************************************************************************)
\* An object literal is the sequence of its <<key, value>> members in source
\* order; JSON.stringify leaves out the members whose value is undefined.
IsDefined(member) == member[2] # Undef

JsonStringify(members) == [t |-> "json", members |-> SelectSeq(members, IsDefined)]

\* The value the receiver finds under a key of the document (undefined if none).
JsonGet(doc, key) ==
  IF \E i \in 1..Len(doc.members) : doc.members[i][1] = key
  THEN doc.members[CHOOSE i \in 1..Len(doc.members) : doc.members[i][1] = key][2]
  ELSE Undef

\* const forwardBody = { sharedSecret, eventId, type, data }
ForwardBody(sharedSecret, event) ==
  << <<"sharedSecret", Str(sharedSecret)>>,
     <<"eventId", event.id>>,
     <<"type", [t |-> "string", type |-> event.type]>>,
     <<"data", JsonStringify(simplifyStripeEvent_(event))>> >>

(***************************************************************************)
(* Configuration, read once from the environment                           *)
(***************************************************************************)
NoUrl == Url("", <<>>, "")
ScriptUrl == Url("https://script.google.com", <<"macros", "s", "exec">>, "mode=billingWebhook")
OtherUrl == Url("https://script.googleusercontent.com", <<"macros", "echo">>, "lib=1")

DefaultAllowed == {InvoicePaid, InvoicePaymentFailed, InvoiceFinalized}
AllowSets == {DefaultAllowed, {InvoicePaid, ChargeSucceeded}}

WebhookSecrets == {"", "whsec_live"}
DestinationUrls == {NoUrl, ScriptUrl}
SharedSecrets == {"", "shared_1"}

(***************************************************************************)
(* Inbound requests and downstream responses                               *)
(***************************************************************************)
\* The Stripe-Signature header: absent, empty, or a signature made with a
\* key over a payload at a time inside or outside the tolerance window.
NoSig == [k |-> "none"]
EmptySig == [k |-> "empty"]
Sig(key, overBody, fresh) == [k |-> "sig", key |-> key, overBody |-> overBody, fresh |-> fresh]

SigHeaders ==
  {NoSig, EmptySig} \cup
  {Sig(key, overBody, fresh) : key \in {"whsec_live", "whsec_old"},
                                overBody \in BOOLEAN, fresh \in BOOLEAN}

\* if (!sig)
SigMissing(sig) == sig.k \in {"none", "empty"}

\* Variant: the signature is checked against the key and the time only, so a
\* body altered after signing passes.
ConstructEventOk_AnyBody(sig, secret) ==
  /\ sig.k = "sig"
  /\ secret # ""
  /\ sig.key = secret
  /\ sig.fresh

\* stripe.webhooks.constructEvent(req.body, sig, secret) returns the parsed
\* body when the header carries a signature made with the secret over exactly
\* the raw body, inside the tolerance window; otherwise it raises.
ConstructEventOk(sig, secret) ==
  /\ sig.k = "sig"
  /\ secret # ""
  /\ sig.key = secret
  /\ sig.overBody
  /\ sig.fresh

\* A response body: a text of some length.
Text(s, len) == [s |-> s, len |-> len]
EmptyText == Text("", 0)
Texts == {Text("<html>moved</html>", 350)}

\* truncate_(s, n)
truncate_(s, n) == IF s.len > n THEN [s |-> s.s, len |-> n + 3, cut |-> n] ELSE s

Statuses == {200, 301, 302, 303, 307, 308, 404, 500}
Locations == {NoLoc, EmptyLoc, InvalidLoc, PathLoc(<<"next">>, ""), AbsLoc(OtherUrl)}

\* What the destination answered, as HTTP classes it: the class of the status
\* and the Location header.
StatusClass(status) ==
  IF status \in 200..299 THEN "2xx"
  ELSE IF status \in {301, 302, 303, 307, 308} THEN "redirect"
  ELSE "other"

Seen(resp) == [class |-> StatusClass(resp.status), loc |-> resp.loc]

\* Variant: every status below 400 counts as success.
RespOk_Below400(status) == status >= 200 /\ status < 400

\* resp.ok
RespOk(status) == status >= 200 /\ status <= 299

\* Variant: 303 is left out of the redirect statuses.
IsRedirect_No303(status) == status \in {301, 302, 307, 308}

\* [301, 302, 303, 307, 308].includes(resp.status)
IsRedirect(status) == status \in {301, 302, 303, 307, 308}

\* while (hops < 5)
MaxHops == 5

(***************************************************************************)
(* State                                                                   *)
(***************************************************************************)
Reqs == {"req_1"}

VARIABLES
  STRIPE_WEBHOOK_SECRET,          \* Stripe signing secret, "" when unset
  APPS_SCRIPT_WEBHOOK_URL,        \* destination, NoUrl when unset
  BILLING_WEBHOOK_SHARED_SECRET,  \* downstream shared secret, "" when unset
  allowedTypes,                   \* the allow-set
  st                              \* per inbound request: the handler's state

config == <<STRIPE_WEBHOOK_SECRET, APPS_SCRIPT_WEBHOOK_URL,
            BILLING_WEBHOOK_SHARED_SECRET, allowedTypes>>
vars == <<STRIPE_WEBHOOK_SECRET, APPS_SCRIPT_WEBHOOK_URL,
          BILLING_WEBHOOK_SHARED_SECRET, allowedTypes, st>>

NoEvent == [id |-> Undef, type |-> <<>>, object |-> Undef]
NoRes == [status |-> 0, body |-> ""]
NoResp == [status |-> 0, loc |-> NoLoc, text |-> EmptyText, readable |-> TRUE]
NoResult == [ok |-> FALSE, status |-> -1, finalUrl |-> NoUrl, text |-> EmptyText, hops |-> -1]
NoBody == [t |-> "json", members |-> <<>>]
NoPayload == <<>>

\* A request that has not arrived yet.
IdleReq ==
  [pc |-> "idle",            \* idle, fetching (suspended at await fetch), done
   impl |-> "",              \* the deployment that handles the request
   sig |-> NoSig,            \* req.headers["stripe-signature"]
   event |-> NoEvent,        \* the event the raw body parses to
   verified |-> FALSE,       \* constructEvent has returned the event
   res |-> NoRes,            \* the response sent
   nres |-> 0,               \* number of responses sent
   sent |-> <<>>,            \* outbound requests issued, in order
   nresp |-> 0,              \* downstream responses received
   lastResp |-> NoResp,      \* the last downstream response
   rcvd |-> <<>>,            \* class and Location of each downstream response
   fetchFailed |-> FALSE,    \* a downstream call failed at the network level
   threw |-> FALSE,          \* an error reached the handler's catch
   simplified |-> NoPayload, \* what simplifyStripeEvent_ returned
   simplifyThrew |-> FALSE,  \* simplifyStripeEvent_ raised
   called |-> FALSE,         \* the forwarder was called
   ncalls |-> 0,             \* number of calls of the forwarder
   body |-> NoBody,          \* forwarder locals
   currentUrl |-> NoUrl,
   lastStatus |-> 0,
   lastText |-> EmptyText,
   hops |-> 0,
   forwardResult |-> NoResult]

Init ==
  /\ STRIPE_WEBHOOK_SECRET \in WebhookSecrets
  /\ APPS_SCRIPT_WEBHOOK_URL \in DestinationUrls
  /\ BILLING_WEBHOOK_SHARED_SECRET \in SharedSecrets
  /\ allowedTypes \in AllowSets
  /\ st = [r \in Reqs |-> IdleReq]

(***************************************************************************)
(* src/index.js: app.post("/stripe-webhook") and                           *)
(* postJsonPreservePostAcrossRedirects_                                    *)
(***************************************************************************)
\* return res.status(code).send(text)
Respond(s, code, text) ==
  [s EXCEPT !.pc = "done", !.res = [status |-> code, body |-> text], !.nres = @ + 1]

\* fetch(currentUrl, { method: "POST", headers, body, redirect: "manual" })
PostRequest(url, body) ==
  [method |-> "POST", url |-> url,
   headers |-> {<<"Content-Type", "application/json">>}, body |-> body]

\* The handler after the forwarder has returned its outcome.
AfterForward(s, result) ==
  IF ~result.ok
  THEN Respond([s EXCEPT !.forwardResult = result], 502, "Forward failed")
  ELSE Respond([s EXCEPT !.forwardResult = result], 200, "Forwarded OK")

\* Variant: the exhausted outcome carries the sentinel status 0.
TooManyRedirects_StatusZero(s) ==
  [ok |-> FALSE,
   status |-> 0,
   finalUrl |-> s.currentUrl,
   text |-> [tooManyRedirects |-> TRUE, last |-> truncate_(s.lastText, 200)],
   hops |-> s.hops]

\* return { ok: false, status: lastStatus || 0, ... } after the loop
TooManyRedirects(s) ==
  [ok |-> FALSE,
   status |-> IF s.lastStatus # 0 THEN s.lastStatus ELSE 0,
   finalUrl |-> s.currentUrl,
   text |-> [tooManyRedirects |-> TRUE, last |-> truncate_(s.lastText, 200)],
   hops |-> s.hops]

\* Variant: the loop admits one more pass (hops <= 5).
LoopHead_Inclusive(s) ==
  IF s.hops <= MaxHops
  THEN [s EXCEPT !.pc = "fetching", !.sent = Append(@, PostRequest(s.currentUrl, s.body))]
  ELSE AfterForward(s, TooManyRedirects(s))

\* The head of the loop: issue the next POST, or leave the loop.
LoopHead(s) ==
  IF s.hops < MaxHops
  THEN [s EXCEPT !.pc = "fetching", !.sent = Append(@, PostRequest(s.currentUrl, s.body))]
  ELSE AfterForward(s, TooManyRedirects(s))

\* postJsonPreservePostAcrossRedirects_(url, obj, reqId) up to its first await
StartForward(s, url, obj) ==
  LoopHead([s EXCEPT !.called = TRUE, !.ncalls = @ + 1, !.body = JsonStringify(obj), !.currentUrl = url,
                     !.lastStatus = 0, !.lastText = EmptyText, !.hops = 0])

\* Variant: any invoice.* type passes, not only the listed ones.
IsAllowed_InvoicePrefix(type, allowSet) == type \in allowSet \/ StartsWithInvoice(type)

\* allowedTypes.has(event.type)
IsAllowed(type, allowSet) == type \in allowSet

\* Variant: only the destination URL is checked.
Misconfigured_UrlOnly(url, sharedSecret) == url = NoUrl

\* !APPS_SCRIPT_WEBHOOK_URL || !BILLING_WEBHOOK_SHARED_SECRET
Misconfigured(url, sharedSecret) == url = NoUrl \/ sharedSecret = ""

\* Variant: the configuration is checked before the event type.
HandleRequest_ConfigFirst(s, sig, event) ==
  LET s0 == [s EXCEPT !.impl = "index", !.sig = sig, !.event = event]
      s1 == [s0 EXCEPT !.verified = TRUE]
      s2 == [s1 EXCEPT !.simplified = simplifyStripeEvent_(event)]
  IN
  IF SigMissing(sig) THEN Respond(s0, 400, "Missing Stripe-Signature header")
  ELSE IF ~ConstructEventOk(sig, STRIPE_WEBHOOK_SECRET) THEN Respond(s0, 400, "Bad signature")
  ELSE IF Misconfigured(APPS_SCRIPT_WEBHOOK_URL, BILLING_WEBHOOK_SHARED_SECRET)
    THEN Respond(s1, 500, "Server misconfigured")
  ELSE IF ~IsAllowed(event.type, allowedTypes) THEN Respond(s1, 200, "Ignored")
  ELSE IF SimplifyThrows(event)
    THEN Respond([s1 EXCEPT !.simplifyThrew = TRUE, !.threw = TRUE], 500, "Server error")
  ELSE StartForward(s2, APPS_SCRIPT_WEBHOOK_URL, ForwardBody(BILLING_WEBHOOK_SHARED_SECRET, event))

\* The handler from the arrival of the request to its first await or response.
HandleRequest(s, sig, event) ==
  LET s0 == [s EXCEPT !.impl = "index", !.sig = sig, !.event = event]
      s1 == [s0 EXCEPT !.verified = TRUE]
      s2 == [s1 EXCEPT !.simplified = simplifyStripeEvent_(event)]
  IN
  IF SigMissing(sig) THEN Respond(s0, 400, "Missing Stripe-Signature header")
  ELSE IF ~ConstructEventOk(sig, STRIPE_WEBHOOK_SECRET) THEN Respond(s0, 400, "Bad signature")
  ELSE IF ~IsAllowed(event.type, allowedTypes) THEN Respond(s1, 200, "Ignored")
  ELSE IF Misconfigured(APPS_SCRIPT_WEBHOOK_URL, BILLING_WEBHOOK_SHARED_SECRET)
    THEN Respond(s1, 500, "Server misconfigured")
  ELSE IF SimplifyThrows(event)
    THEN Respond([s1 EXCEPT !.simplifyThrew = TRUE, !.threw = TRUE], 500, "Server error")
  ELSE StartForward(s2, APPS_SCRIPT_WEBHOOK_URL, ForwardBody(BILLING_WEBHOOK_SHARED_SECRET, event))

\* safeText_(resp): the body, or "" when reading it raises.
safeText_(resp) == IF resp.readable THEN resp.text ELSE EmptyText

\* Variant: the outcomes report the URL the forwarder was called with.
OnResponse_FirstUrl(s, resp) ==
  LET s0 == [s EXCEPT !.nresp = @ + 1, !.lastResp = resp, !.rcvd = Append(@, Seen(resp)),
                      !.lastStatus = resp.status, !.lastText = safeText_(resp)]
  IN
  IF RespOk(resp.status)
  THEN AfterForward(s0, [ok |-> TRUE, status |-> resp.status, finalUrl |-> s0.sent[1].url,
                         text |-> s0.lastText, hops |-> s0.hops])
  ELSE IF IsRedirect(resp.status) /\ LocTruthy(resp.loc)
  THEN (IF CanResolve(resp.loc)
        THEN LoopHead([s0 EXCEPT !.currentUrl = ResolveUrl(resp.loc, s0.currentUrl),
                                 !.hops = @ + 1])
        ELSE Respond([s0 EXCEPT !.threw = TRUE], 500, "Server error"))
  ELSE AfterForward(s0, [ok |-> FALSE, status |-> resp.status, finalUrl |-> s0.sent[1].url,
                         text |-> s0.lastText, hops |-> s0.hops])

\* Variant: the first failure answer is retried once on the same URL.
OnResponse_RetryOnFailure(s, resp) ==
  LET s0 == [s EXCEPT !.nresp = @ + 1, !.lastResp = resp, !.rcvd = Append(@, Seen(resp)),
                      !.lastStatus = resp.status, !.lastText = safeText_(resp)]
  IN
  IF RespOk(resp.status)
  THEN AfterForward(s0, [ok |-> TRUE, status |-> resp.status, finalUrl |-> s0.currentUrl,
                         text |-> s0.lastText, hops |-> s0.hops])
  ELSE IF IsRedirect(resp.status) /\ LocTruthy(resp.loc)
  THEN (IF CanResolve(resp.loc)
        THEN LoopHead([s0 EXCEPT !.currentUrl = ResolveUrl(resp.loc, s0.currentUrl),
                                 !.hops = @ + 1])
        ELSE Respond([s0 EXCEPT !.threw = TRUE], 500, "Server error"))
  ELSE IF s0.nresp = 1 /\ ~IsRedirect(resp.status)
  THEN [s0 EXCEPT !.pc = "fetching", !.sent = Append(@, PostRequest(s0.currentUrl, s0.body))]
  ELSE AfterForward(s0, [ok |-> FALSE, status |-> resp.status, finalUrl |-> s0.currentUrl,
                         text |-> s0.lastText, hops |-> s0.hops])

\* The loop body after fetch has returned resp.
OnResponse(s, resp) ==
  LET s0 == [s EXCEPT !.nresp = @ + 1, !.lastResp = resp, !.rcvd = Append(@, Seen(resp)),
                      !.lastStatus = resp.status, !.lastText = safeText_(resp)]
  IN
  IF RespOk(resp.status)
  THEN AfterForward(s0, [ok |-> TRUE, status |-> resp.status, finalUrl |-> s0.currentUrl,
                         text |-> s0.lastText, hops |-> s0.hops])
  ELSE IF IsRedirect(resp.status) /\ LocTruthy(resp.loc)
  THEN (IF CanResolve(resp.loc)
        THEN LoopHead([s0 EXCEPT !.currentUrl = ResolveUrl(resp.loc, s0.currentUrl),
                                 !.hops = @ + 1])
        ELSE Respond([s0 EXCEPT !.threw = TRUE], 500, "Server error"))
  ELSE AfterForward(s0, [ok |-> FALSE, status |-> resp.status, finalUrl |-> s0.currentUrl,
                         text |-> s0.lastText, hops |-> s0.hops])

\* Variant: the rejection of fetch is not caught and no response is sent.
OnFetchError_Unhandled(s) ==
  [s EXCEPT !.pc = "crashed", !.fetchFailed = TRUE, !.threw = TRUE]

\* Variant: the catch answers 400.
OnFetchError_BadRequest(s) ==
  Respond([s EXCEPT !.fetchFailed = TRUE, !.threw = TRUE], 400, "Server error")

\* fetch raised (network failure): the error leaves the forwarder and is
\* caught by the handler's catch.
OnFetchError(s) == Respond([s EXCEPT !.fetchFailed = TRUE, !.threw = TRUE], 500, "Server error")

Responses == [status : Statuses, loc : Locations, text : Texts, readable : BOOLEAN]

\* An inbound request arrives and the handler runs to its first await.
Receive(r) ==
  /\ st[r].pc = "idle"
  /\ \E sig \in SigHeaders, event \in Events :
       st' = [st EXCEPT ![r] = HandleRequest(st[r], sig, event)]
  /\ UNCHANGED config

\* The destination answers the pending POST.
FetchReturns(r) ==
  /\ st[r].pc = "fetching"
  /\ \E resp \in Responses : st' = [st EXCEPT ![r] = OnResponse(st[r], resp)]
  /\ UNCHANGED config

\* The pending POST fails at the network level.
FetchRaises(r) ==
  /\ st[r].pc = "fetching"
  /\ st' = [st EXCEPT ![r] = OnFetchError(st[r])]
  /\ UNCHANGED config

Next ==
  \/ \E r \in Reqs : Receive(r)
  \/ \E r \in Reqs : FetchReturns(r)
  \/ \E r \in Reqs : FetchRaises(r)

Spec == Init /\ [][Next]_vars

\* Every pending downstream call eventually returns a response or fails.
SpecLive ==
  /\ Init
  /\ [][Next]_vars
  /\ \A r \in Reqs : WF_vars(FetchReturns(r) \/ FetchRaises(r))

(***************************************************************************)
(* src/stripe-webhook-forwarder/index.js: app.post("/stripe-webhook"),     *)
(* which leaves redirects to fetch (redirect: "follow")                    *)
(***************************************************************************)
\* Redirects the destination chains in one delivery (fetch itself gives up
\* only after 20).
MaxFollow == 3

\* fetch, following a redirect: a POST answered 301 or 302, and any request
\* other than GET/HEAD answered 303, is re-issued as a GET without its body
\* and without its body headers; 307 and 308 keep method and body.
RedirectedRequest(req, status, url) ==
  IF \/ status \in {301, 302} /\ req.method = "POST"
     \/ status = 303 /\ req.method \notin {"GET", "HEAD"}
  THEN [method |-> "GET", url |-> url, headers |-> {}, body |-> NoBody]
  ELSE [req EXCEPT !.url = url]

\* fetch follows a redirect status whose Location header is there; an empty
\* Location parses to the current URL, one that does not parse is an error.
FollowsRedirect(resp) == IsRedirect(resp.status) /\ resp.loc.k # "none"

\* The handler from the arrival of the request to await fetch or a response.
HandleRequestFwd(s, sig, event) ==
  LET s0 == [s EXCEPT !.impl = "forwarder", !.sig = sig, !.event = event]
      s1 == [s0 EXCEPT !.verified = TRUE]
      s2 == [s1 EXCEPT !.simplified = simplifyStripeEvent_(event)]
  IN
  IF SigMissing(sig) THEN Respond(s0, 400, "Missing Stripe-Signature header")
  ELSE IF STRIPE_WEBHOOK_SECRET = "" THEN Respond(s0, 500, "Missing STRIPE_WEBHOOK_SECRET")
  ELSE IF ~ConstructEventOk(sig, STRIPE_WEBHOOK_SECRET) THEN Respond(s0, 400, "Bad signature")
  ELSE IF ~IsAllowed(event.type, allowedTypes) THEN Respond(s1, 200, "Ignored event type")
  ELSE IF Misconfigured(APPS_SCRIPT_WEBHOOK_URL, BILLING_WEBHOOK_SHARED_SECRET)
    THEN Respond(s1, 500, "Server misconfigured")
  ELSE IF SimplifyThrows(event)
    THEN Respond([s1 EXCEPT !.simplifyThrew = TRUE, !.threw = TRUE], 500, "Server error")
  ELSE [s2 EXCEPT !.pc = "following", !.called = TRUE, !.ncalls = @ + 1,
                  !.body = JsonStringify(ForwardBody(BILLING_WEBHOOK_SHARED_SECRET, event)),
                  !.currentUrl = APPS_SCRIPT_WEBHOOK_URL,
                  !.sent = <<PostRequest(APPS_SCRIPT_WEBHOOK_URL,
                               JsonStringify(ForwardBody(BILLING_WEBHOOK_SHARED_SECRET, event)))>>]

\* A downstream response inside fetch, and the handler after fetch returned.
OnResponseFwd(s, resp) ==
  LET s0 == [s EXCEPT !.nresp = @ + 1, !.lastResp = resp, !.rcvd = Append(@, Seen(resp)),
                      !.lastStatus = resp.status]
      last == s.sent[Len(s.sent)]
      next == ResolveUrl(resp.loc, s.currentUrl)
  IN
  IF FollowsRedirect(resp)
  THEN (IF resp.loc.k = "invalid"
        THEN Respond([s0 EXCEPT !.fetchFailed = TRUE, !.threw = TRUE], 500, "Server error")
        ELSE [s0 EXCEPT !.currentUrl = next, !.hops = @ + 1,
                        !.sent = Append(@, RedirectedRequest(last, resp.status, next))])
  ELSE IF ~resp.readable THEN Respond([s0 EXCEPT !.threw = TRUE], 500, "Server error")
  ELSE IF ~RespOk(resp.status)
    THEN Respond([s0 EXCEPT !.lastText = resp.text], 502, "Forward failed")
  ELSE Respond([s0 EXCEPT !.lastText = resp.text], 200, "Forwarded OK")

ReceiveFwd(r) ==
  /\ st[r].pc = "idle"
  /\ \E sig \in SigHeaders, event \in Events :
       st' = [st EXCEPT ![r] = HandleRequestFwd(st[r], sig, event)]
  /\ UNCHANGED config

FollowReturns(r) ==
  /\ st[r].pc = "following"
  /\ \E resp \in Responses :
       /\ FollowsRedirect(resp) => st[r].hops < MaxFollow
       /\ st' = [st EXCEPT ![r] = OnResponseFwd(st[r], resp)]
  /\ UNCHANGED config

FollowRaises(r) ==
  /\ st[r].pc = "following"
  /\ st' = [st EXCEPT ![r] = OnFetchError(st[r])]
  /\ UNCHANGED config

NextFwd ==
  \/ \E r \in Reqs : ReceiveFwd(r)
  \/ \E r \in Reqs : FollowReturns(r)
  \/ \E r \in Reqs : FollowRaises(r)

SpecFwd == Init /\ [][NextFwd]_vars

(***************************************************************************)
(* Both handlers: a request is served by src/index.js or by                *)
(* src/stripe-webhook-forwarder/index.js                                   *)
(***************************************************************************)
NextAll == Next \/ NextFwd

SpecAll == Init /\ [][NextAll]_vars

(***************************************************************************)
(* src/index.js serving several inbound requests at once: each request is  *)
(* one invocation of the async handler, suspended at its awaits            *)
(***************************************************************************)
ConcReqs == {"req_1", "req_2"}

ConcSigs == {NoSig, Sig("whsec_live", TRUE, TRUE)}

ConcEvents == [id : {Str("evt_1A")}, type : {InvoicePaid, InvoiceVoided}, object : {Obj(FullFields)}]

ConcResponses ==
  {resp \in Responses :
     /\ resp.readable
     /\ <<resp.status, resp.loc>> \in
          {<<200, NoLoc>>, <<500, NoLoc>>, <<302, NoLoc>>,
           <<302, PathLoc(<<"next">>, "")>>, <<302, AbsLoc(OtherUrl)>>}}

\* What the destination did for the request, in order: a response or a
\* network failure per outbound request.
Reply(resp) == [k |-> "response", resp |-> resp]
Failure == [k |-> "failure"]

ConcIdle == [replies |-> <<>>] @@ IdleReq

\* Variant: currentUrl, lastStatus, lastText and hops are module-level
\* variables shared by all invocations.
Commit_SharedLocals(r, s) ==
  [q \in DOMAIN st |->
     IF q = r THEN s
     ELSE [st[q] EXCEPT !.currentUrl = s.currentUrl, !.lastStatus = s.lastStatus,
                        !.lastText = s.lastText, !.hops = s.hops]]

\* The invocation for request r runs to its next await; req, res, event and
\* the forwarder's let-bound locals belong to that invocation alone.
Commit(r, s) == [st EXCEPT ![r] = s]

InitConc ==
  /\ STRIPE_WEBHOOK_SECRET = "whsec_live"
  /\ APPS_SCRIPT_WEBHOOK_URL = ScriptUrl
  /\ BILLING_WEBHOOK_SHARED_SECRET = "shared_1"
  /\ allowedTypes = DefaultAllowed
  /\ st = [r \in ConcReqs |-> ConcIdle]

ReceiveConc(r) ==
  /\ st[r].pc = "idle"
  /\ \E sig \in ConcSigs, event \in ConcEvents :
       st' = Commit(r, HandleRequest(st[r], sig, event))
  /\ UNCHANGED config

FetchReturnsConc(r) ==
  /\ st[r].pc = "fetching"
  /\ \E resp \in ConcResponses :
       st' = Commit(r, OnResponse([st[r] EXCEPT !.replies = Append(@, Reply(resp))], resp))
  /\ UNCHANGED config

FetchRaisesConc(r) ==
  /\ st[r].pc = "fetching"
  /\ st' = Commit(r, OnFetchError([st[r] EXCEPT !.replies = Append(@, Failure)]))
  /\ UNCHANGED config

NextConc ==
  \/ \E r \in ConcReqs : ReceiveConc(r)
  \/ \E r \in ConcReqs : FetchReturnsConc(r)
  \/ \E r \in ConcReqs : FetchRaisesConc(r)

SpecConc == InitConc /\ [][NextConc]_vars

(***************************************************************************)
(* simplifyStripeEvent_ applied to verified events of every shape          *)
(***************************************************************************)
\* data.object as a mapping whose fields are each absent or present, with
\* timestamps that are absent, null, 0, a number of seconds or text.
SimplifyFields ==
  [id : {Undef, Str("in_1")},
   object : {Undef, Str("invoice")},
   status : {Undef, Str("paid")},
   hosted_invoice_url : {Undef, Str("https://invoice.stripe.com/i/1")},
   amount_due : {Undef, Num(1050), Num(0)},
   currency : {Undef, Str("eur")},
   created : {Undef, Num(0), Num(1700000000), Num(1709251199), Str("soon")},
   paid_at : {Undef, Null, Num(0), Num(1700000100), Str("later")},
   customer : {Undef, Str("cus_1")},
   number : {Undef, Str("INV-1")},
   metadata : {Undef, Map({<<"businessId", "b1">>})}]

\* data.object: a mapping, or missing, null or a text.
SimplifyObjects == {Obj(f) : f \in SimplifyFields} \cup {Undef, Null, Str("in_1")}

SimplifyEvents == [id : {Str("evt_1A")}, type : {InvoicePaid, ChargeSucceeded}, object : SimplifyObjects]

\* const simplified = simplifyStripeEvent_(event)
ApplySimplify(s, event) ==
  IF SimplifyThrows(event)
  THEN [s EXCEPT !.pc = "simplified", !.event = event, !.verified = TRUE,
                 !.simplifyThrew = TRUE]
  ELSE [s EXCEPT !.pc = "simplified", !.event = event, !.verified = TRUE,
                 !.simplified = simplifyStripeEvent_(event)]

InitSimplify ==
  /\ Init
  /\ STRIPE_WEBHOOK_SECRET = "whsec_live"
  /\ APPS_SCRIPT_WEBHOOK_URL = ScriptUrl
  /\ BILLING_WEBHOOK_SHARED_SECRET = "shared_1"
  /\ allowedTypes = {InvoicePaid, ChargeSucceeded}

\* The simplifier is called on a verified event.
SimplifyCall(r) ==
  /\ st[r].pc = "idle"
  /\ \E event \in SimplifyEvents : st' = [st EXCEPT ![r] = ApplySimplify(st[r], event)]
  /\ UNCHANGED config

NextSimplify == \E r \in Reqs : SimplifyCall(r)

SpecSimplify == InitSimplify /\ [][NextSimplify]_vars

(***************************************************************************)
(* Properties                                                              *)
(***************************************************************************)
\* The request has arrived.
Arrived(s) == s.pc # "idle"

\* The header carries a signature made with the configured signing secret
\* over exactly the raw body, inside the tolerance window.
ValidlySigned(s) ==
  /\ s.sig.k = "sig"
  /\ s.sig.key = STRIPE_WEBHOOK_SECRET
  /\ s.sig.overBody
  /\ s.sig.fresh

Configured == APPS_SCRIPT_WEBHOOK_URL # NoUrl /\ BILLING_WEBHOOK_SHARED_SECRET # ""

\* C1: a request whose signature header is missing (absent or empty) or whose
\* signature does not verify is answered 400 at once and no outbound request
\* is issued for it, whatever the body, the event type and the configuration.
C1_BadSignatureRejected ==
  \A r \in Reqs :
    (Arrived(st[r]) /\ ~ValidlySigned(st[r])) =>
      /\ st[r].pc = "done"
      /\ st[r].res.status = 400
      /\ st[r].nres = 1
      /\ st[r].sent = <<>>
      /\ ~st[r].called

\* C1 witness: a body altered after signing, of an allowed type, under a full
\* configuration, has been answered.
C1_Witness ==
  \E r \in Reqs :
    /\ st[r].pc = "done"
    /\ st[r].sig = Sig("whsec_live", FALSE, TRUE)
    /\ STRIPE_WEBHOOK_SECRET = "whsec_live"
    /\ st[r].event.type \in allowedTypes
    /\ Configured
    /\ st[r].res.status = 400

\* C2: a verified event whose type is not in the allow-set is answered 200
\* with the body "Ignored" and no outbound request is issued for it.
C2_DisallowedTypeIgnored ==
  \A r \in Reqs :
    (Arrived(st[r]) /\ ValidlySigned(st[r]) /\ st[r].event.type \notin allowedTypes) =>
      /\ st[r].pc = "done"
      /\ st[r].res = [status |-> 200, body |-> "Ignored"]
      /\ st[r].nres = 1
      /\ st[r].sent = <<>>
      /\ ~st[r].called

\* C2 witness: a verified invoice.voided event, which the allow-set does not
\* list, has been answered under a full configuration.
C2_Witness ==
  \E r \in Reqs :
    /\ st[r].pc = "done"
    /\ ValidlySigned(st[r])
    /\ st[r].event.type = InvoiceVoided
    /\ InvoiceVoided \notin allowedTypes
    /\ Configured
    /\ st[r].res.status = 200

\* C3: when the destination URL or the downstream shared secret is unset, a
\* verified event of an allowed type is answered 500 and no outbound request
\* is attempted.
C3_MisconfiguredIs500 ==
  \A r \in Reqs :
    (/\ Arrived(st[r])
     /\ ValidlySigned(st[r])
     /\ st[r].event.type \in allowedTypes
     /\ ~Configured) =>
      /\ st[r].pc = "done"
      /\ st[r].res.status = 500
      /\ st[r].nres = 1
      /\ st[r].sent = <<>>
      /\ ~st[r].called

\* C3 witness: a verified allowed event has been answered while the
\* destination URL is unset.
C3_Witness ==
  \E r \in Reqs :
    /\ st[r].pc = "done"
    /\ ValidlySigned(st[r])
    /\ st[r].event.type \in allowedTypes
    /\ APPS_SCRIPT_WEBHOOK_URL = NoUrl
    /\ st[r].res.status = 500

\* The destination has answered 2xx to every request it got, and no call
\* failed at the network level.
DestinationAnswers2xx(s) ==
  /\ ~s.fetchFailed
  /\ \A i \in 1..Len(s.rcvd) : s.rcvd[i].class = "2xx"

\* The envelope the destination reads has the event's id and type.
EnvelopeMatches(doc, event) ==
  /\ JsonGet(doc, "eventId") = event.id
  /\ JsonGet(doc, "type") = [t |-> "string", type |-> event.type]

\* C4: a validly signed event of an allowed type, under a full configuration
\* and with a destination that answers 2xx, is answered 200, and the envelope
\* the destination received has the event's id as eventId and its type as type.
C4_DeliveredEnvelopeMatches ==
  \A r \in Reqs :
    (/\ st[r].pc = "done"
     /\ ValidlySigned(st[r])
     /\ st[r].event.type \in allowedTypes
     /\ Configured
     /\ DestinationAnswers2xx(st[r])) =>
      /\ st[r].res.status = 200
      /\ Len(st[r].sent) >= 1
      /\ \A i \in 1..Len(st[r].sent) : EnvelopeMatches(st[r].sent[i].body, st[r].event)

\* The same for the events the simplifier returns on: answered 200 with a
\* matching envelope delivered.
Delivered_WhenSimplifyReturns ==
  \A r \in Reqs :
    (/\ st[r].pc = "done"
     /\ ValidlySigned(st[r])
     /\ st[r].event.type \in allowedTypes
     /\ Configured
     /\ ~SimplifyThrows(st[r].event)
     /\ DestinationAnswers2xx(st[r])) =>
      /\ st[r].res.status = 200
      /\ Len(st[r].sent) >= 1
      /\ \A i \in 1..Len(st[r].sent) : EnvelopeMatches(st[r].sent[i].body, st[r].event)

\* C5: every outbound request issued for an inbound request, those made
\* after a redirect included, is a POST with the body and the headers of the
\* first one.
C5_EveryOutboundIsSamePost ==
  \A r \in Reqs : \A i \in 1..Len(st[r].sent) :
    /\ st[r].sent[i].method = "POST"
    /\ st[r].sent[i].body = st[r].sent[1].body
    /\ st[r].sent[i].headers = st[r].sent[1].headers
    /\ st[r].sent[i].body # NoBody

\* The destination's answers so far are all redirects carrying a Location
\* that parses.
OnlyRedirects(rcvd) ==
  \A i \in 1..Len(rcvd) :
    rcvd[i].class = "redirect" /\ rcvd[i].loc.k \in {"absolute", "path", "relative"}

\* url is loc resolved against prev: an absolute Location as it is, a path
\* on the origin of prev.
IsResolved(url, loc, prev) ==
  /\ loc.k = "absolute" => url = loc.url
  /\ loc.k = "path" => url = [origin |-> prev.origin, path |-> loc.path, query |-> loc.query]
  /\ loc.k = "relative" =>
       /\ url.origin = prev.origin
       /\ url.query = loc.query
       /\ Len(url.path) >= 1
       /\ url.path[Len(url.path)] = loc.seg

\* k + 1 POSTs with one body, the first to the destination URL and each next
\* one to the Location resolved against the URL before it.
PostChain(s, k) ==
  /\ Len(s.sent) = k + 1
  /\ s.sent[1].url = APPS_SCRIPT_WEBHOOK_URL
  /\ \A i \in 1..(k + 1) :
       /\ s.sent[i].method = "POST"
       /\ s.sent[i].body = s.sent[1].body
       /\ s.sent[i].body # NoBody
  /\ \A i \in 1..k : IsResolved(s.sent[i + 1].url, s.rcvd[i].loc, s.sent[i].url)

\* C6: when the destination answers k redirects carrying a Location,
\* 0 <= k < 5, and then a 2xx, the forwarder has issued exactly k + 1 POSTs
\* with identical bodies, each to the Location resolved against the previous
\* URL, and returns ok = true with hops = k; while only the first k < 5
\* redirects have arrived it is waiting on POST number k + 1.
C6_RedirectChainThen2xx ==
  \A r \in Reqs :
    LET s == st[r]
        n == Len(s.rcvd)
    IN
    (s.called /\ ~s.fetchFailed) =>
      /\ (n < MaxHops /\ OnlyRedirects(s.rcvd)) => (s.pc = "fetching" /\ PostChain(s, n))
      /\ (/\ n >= 1
          /\ n <= MaxHops
          /\ OnlyRedirects(SubSeq(s.rcvd, 1, n - 1))
          /\ s.rcvd[n].class = "2xx") =>
            /\ s.pc = "done"
            /\ PostChain(s, n - 1)
            /\ s.forwardResult.ok
            /\ s.forwardResult.hops = n - 1

\* C6 witness: 303 with Location /next, then 200: two POSTs, hops = 1.
C6_Witness ==
  \E r \in Reqs :
    /\ st[r].pc = "done"
    /\ Len(st[r].rcvd) = 2
    /\ st[r].rcvd[1] = [class |-> "redirect", loc |-> PathLoc(<<"next">>, "")]
    /\ st[r].lastResp.status = 200
    /\ Len(st[r].sent) = 2
    /\ st[r].sent[2].url = Url("https://script.google.com", <<"next">>, "")
    /\ st[r].forwardResult.ok
    /\ st[r].forwardResult.hops = 1

\* The destination has answered each of five POSTs with a redirect carrying
\* a Location that parses.
Exhausted(s) ==
  /\ s.called
  /\ ~s.fetchFailed
  /\ Len(s.rcvd) = MaxHops
  /\ OnlyRedirects(s.rcvd)

\* C7 as stated: when the destination answers every request with a redirect
\* carrying a Location, the forwarder returns after 5 hops with ok = false and
\* status = 0.
C7_ExhaustedStatusZero ==
  \A r \in Reqs :
    Exhausted(st[r]) =>
      /\ st[r].pc = "done"
      /\ st[r].forwardResult.hops = MaxHops
      /\ ~st[r].forwardResult.ok
      /\ st[r].forwardResult.status = 0

\* C7 amended: when the destination answers every request with a redirect
\* carrying a Location, the forwarder returns after 5 hops (5 POSTs) with
\* ok = false and status equal to the status of the last redirect response;
\* the status is never 0.
C7_ExhaustedLastStatus ==
  \A r \in Reqs :
    Exhausted(st[r]) =>
      /\ st[r].pc = "done"
      /\ Len(st[r].sent) = MaxHops
      /\ st[r].forwardResult.hops = MaxHops
      /\ ~st[r].forwardResult.ok
      /\ st[r].forwardResult.status = st[r].lastResp.status
      /\ st[r].forwardResult.status \in {301, 302, 303, 307, 308}

\* C7 witness: five 302 answers, each with a Location.
C7_Witness ==
  \E r \in Reqs :
    /\ Exhausted(st[r])
    /\ st[r].lastResp.status = 302
    /\ st[r].forwardResult.status = 302
    /\ st[r].res.status = 502

\* C8: once the forwarder has been called, the handler answers 200 exactly
\* when the forwarder returned ok = true, which it does only when the last
\* POST issued got a 2xx; every outcome with ok = false is answered 502.
C8_DeliveredIffOk ==
  \A r \in Reqs :
    LET s == st[r] IN
    (s.called /\ s.pc = "done") =>
      /\ s.res.status = 200 <=> (s.forwardResult # NoResult /\ s.forwardResult.ok)
      /\ (s.forwardResult # NoResult /\ s.forwardResult.ok) =>
            /\ Len(s.rcvd) = Len(s.sent)
            /\ s.lastResp.status \in 200..299
            /\ s.forwardResult.status = s.lastResp.status
      /\ (s.forwardResult # NoResult /\ ~s.forwardResult.ok) => s.res.status = 502
      /\ s.nres = 1

\* C8 witness: a 404 from the destination has been answered 502.
C8_Witness ==
  \E r \in Reqs :
    /\ st[r].pc = "done"
    /\ st[r].called
    /\ st[r].lastResp.status = 404
    /\ ~st[r].forwardResult.ok
    /\ st[r].forwardResult.status = 404
    /\ st[r].res.status = 502

\* C9: once the signature has verified, the handler never answers 400: the
\* answer is 200 (ignored, or delivered) or, for every failure after
\* verification, 500 or 502.
C9_No400AfterVerification ==
  \A r \in Reqs :
    LET s == st[r] IN
    (s.pc = "done" /\ ValidlySigned(s)) =>
      /\ s.res.status \in {200, 500, 502}
      /\ s.res.status = 200 =>
            \/ s.event.type \notin allowedTypes
            \/ (s.forwardResult # NoResult /\ s.forwardResult.ok)

\* C9 witness: a verified request whose delivery failed at the network level
\* has been answered.
C9_Witness ==
  \E r \in Reqs :
    /\ st[r].pc = "done"
    /\ ValidlySigned(st[r])
    /\ st[r].fetchFailed
    /\ st[r].res.status \in {500, 502}

\* C10: a network-level failure of the delivery call, on the first request or
\* on a later hop, is answered 502.
C10_NetworkFailureIs502 ==
  \A r \in Reqs :
    (st[r].pc = "done" /\ st[r].fetchFailed) => st[r].res.status = 502

\* The request is answered once, with one of the handler's statuses.
AnsweredOnce(s) ==
  /\ s.pc = "done"
  /\ s.nres = 1
  /\ s.res.status \in {200, 400, 500, 502}

\* C11: every inbound request eventually gets exactly one response, with a
\* status in {200, 400, 500, 502}, provided each downstream call eventually
\* returns or fails; before that no response has been sent, and no failure
\* leaves the handler without a response.
C11_EveryRequestAnsweredOnce ==
  /\ [](\A r \in Reqs :
         /\ st[r].pc \in {"idle", "fetching", "done"}
         /\ st[r].pc = "done" => AnsweredOnce(st[r])
         /\ st[r].pc # "done" => (st[r].nres = 0 /\ st[r].res = NoRes)
         /\ st[r].threw => AnsweredOnce(st[r]))
  /\ \A r \in Reqs : Arrived(st[r]) ~> AnsweredOnce(st[r])

\* C11 witness: a request whose downstream body could not be read on a
\* redirect hop and whose next call then failed has been answered.
C11_Witness ==
  \E r \in Reqs :
    /\ AnsweredOnce(st[r])
    /\ Len(st[r].sent) = 2
    /\ ~st[r].lastResp.readable
    /\ st[r].fetchFailed
    /\ st[r].res.status = 500

\* The simplifier has been applied to the request's event.
Simplified(s) == s.pc = "simplified"

\* The source field of the event's data.object (undefined when absent).
Source(s, name) == Field(ObjOf(s.event), name)

\* The member of the payload as the destination reads it.
Out(s, key) == JsonGet(JsonStringify(s.simplified), key)

\* C12: the simplifier is total: for every verified event, whatever nested
\* fields are missing or malformed, it returns a payload (ten members for an
\* invoice event, three otherwise) and never raises.
C12_SimplifierTotal ==
  \A r \in Reqs :
    Simplified(st[r]) =>
      /\ ~st[r].simplifyThrew
      /\ Len(st[r].simplified) = IF StartsWithInvoice(st[r].event.type) THEN 10 ELSE 3

\* Where the simplifier does not meet a timestamp that is present but not a
\* number, it returns a payload of the event's variant.
SimplifierReturns_OnNumericTimes ==
  \A r \in Reqs :
    (/\ Simplified(st[r])
     /\ Source(st[r], "created").t \in {"undefined", "null", "number"}
     /\ Source(st[r], "paid_at").t \in {"undefined", "null", "number"}) =>
      /\ ~st[r].simplifyThrew
      /\ Len(st[r].simplified) = IF StartsWithInvoice(st[r].event.type) THEN 10 ELSE 3

\* The text members of the invoice payload and their source fields.
TextMembers ==
  {<<"invoiceId", "id">>, <<"status", "status">>, <<"hostedInvoiceUrl", "hosted_invoice_url">>,
   <<"customer", "customer">>, <<"number", "number">>}

\* The invoice payload of the request has been built.
InvoiceBuilt(s) ==
  /\ Simplified(s)
  /\ StartsWithInvoice(s.event.type)
  /\ ~s.simplifyThrew

\* C13 as stated: for an invoice event each absent source field yields the
\* empty string (invoiceId, status, hostedInvoiceUrl, currency, customer,
\* number), null (amountDue) or the empty mapping (metadata).
C13_AbsentYieldsEmptyDefaults ==
  \A r \in Reqs :
    InvoiceBuilt(st[r]) =>
      /\ \A m \in TextMembers \cup {<<"currency", "currency">>} :
           Source(st[r], m[2]) = Undef => Out(st[r], m[1]) = Str("")
      /\ Source(st[r], "amount_due") = Undef => Out(st[r], "amountDue") = Null
      /\ Source(st[r], "metadata") = Undef => Out(st[r], "metadata") = Map({})

\* C13 amended: for an invoice event each absent source field yields the
\* empty string for invoiceId, status, hostedInvoiceUrl, customer and number,
\* the text "usd" for currency, null for amountDue and the empty mapping for
\* metadata; a field that is present is passed on.
C13_AbsentYieldsDefaults ==
  \A r \in Reqs :
    InvoiceBuilt(st[r]) =>
      /\ \A m \in TextMembers :
           /\ Source(st[r], m[2]) = Undef => Out(st[r], m[1]) = Str("")
           /\ Source(st[r], m[2]) # Undef => Out(st[r], m[1]) = Source(st[r], m[2])
      /\ Source(st[r], "currency") = Undef => Out(st[r], "currency") = Str("usd")
      /\ Source(st[r], "currency") # Undef => Out(st[r], "currency") = Source(st[r], "currency")
      /\ Source(st[r], "amount_due") = Undef => Out(st[r], "amountDue") = Null
      /\ Source(st[r], "amount_due") = Num(1050) =>
           Out(st[r], "amountDue") = [t |-> "number", whole |-> 10, hundredths |-> 50]
      /\ Source(st[r], "metadata") = Undef => Out(st[r], "metadata") = Map({})

\* C13 witness: an invoice whose currency and amount_due are absent while
\* its id is present has been simplified.
C13_Witness ==
  \E r \in Reqs :
    /\ InvoiceBuilt(st[r])
    /\ Source(st[r], "currency") = Undef
    /\ Source(st[r], "amount_due") = Undef
    /\ Source(st[r], "id") = Str("in_1")
    /\ Out(st[r], "currency") = Str("usd")
    /\ Out(st[r], "amountDue") = Null
    /\ Out(st[r], "invoiceId") = Str("in_1")

\* The ISO-8601 UTC instant of a number of seconds since the epoch.
ExpectedIso(n) ==
  CASE n = 0 -> [t |-> "string", iso |-> <<1970, 1, 1, 0, 0, 0, 0>>]
    [] n = 1700000000 -> [t |-> "string", iso |-> <<2023, 11, 14, 22, 13, 20, 0>>]
    [] n = 1700000100 -> [t |-> "string", iso |-> <<2023, 11, 14, 22, 15, 0, 0>>]
    [] n = 1709251199 -> [t |-> "string", iso |-> <<2024, 2, 29, 23, 59, 59, 0>>]

\* The time member is the conversion of its source: the instant of a number
\* of seconds, the empty string when the source is absent.
TimeConverted(source, out) ==
  /\ source.t = "number" => out = ExpectedIso(source.n)
  /\ source = Undef => out = Str("")

\* C14: for an invoice event createdAt (from created) and paidAt (from
\* status_transitions.paid_at) are the ISO-8601 UTC instant of the source for
\* every present integer number of seconds, 0 included, and the empty string
\* when the source is absent.
C14_TimestampsConverted ==
  \A r \in Reqs :
    InvoiceBuilt(st[r]) =>
      /\ TimeConverted(Source(st[r], "created"), Out(st[r], "createdAt"))
      /\ TimeConverted(Source(st[r], "paid_at"), Out(st[r], "paidAt"))

\* The same for the sources other than 0: converted, or empty when absent.
TimestampsConverted_NonZero ==
  \A r \in Reqs :
    (/\ InvoiceBuilt(st[r])
     /\ Source(st[r], "created") # Num(0)
     /\ Source(st[r], "paid_at") # Num(0)) =>
      /\ TimeConverted(Source(st[r], "created"), Out(st[r], "createdAt"))
      /\ TimeConverted(Source(st[r], "paid_at"), Out(st[r], "paidAt"))

\* The response is a redirect that names where to go next.
RedirectWithLocation(seen) == seen.class = "redirect" /\ seen.loc.k \notin {"none", "empty"}

\* C15: whatever the destination answers, one invocation of the forwarder
\* issues at most 5 requests: a request is pending only while fewer than 5
\* answers have come, every answer before the last request was a redirect
\* with a Location, and a 2xx answer, a non-redirect failure or the fifth
\* answer leaves no request pending.
C15_AtMostFiveRequests ==
  \A r \in Reqs :
    LET s == st[r] IN
    /\ Len(s.sent) <= MaxHops
    /\ Len(s.rcvd) <= Len(s.sent)
    /\ Len(s.sent) <= Len(s.rcvd) + 1
    /\ s.pc = "fetching" <=> (Len(s.sent) = Len(s.rcvd) + 1 /\ ~s.fetchFailed)
    /\ \A i \in 1..Len(s.rcvd) :
         i < Len(s.sent) => RedirectWithLocation(s.rcvd[i])
    /\ \A i \in 1..Len(s.rcvd) :
         s.rcvd[i].class \in {"2xx", "other"} => (Len(s.sent) = i /\ s.pc = "done")
    /\ Len(s.rcvd) = MaxHops => s.pc = "done"

\* C15 witness: the fifth request was issued and answered by one more
\* redirect, after which the call has ended.
C15_Witness ==
  \E r \in Reqs :
    /\ st[r].pc = "done"
    /\ Len(st[r].sent) = MaxHops
    /\ Len(st[r].rcvd) = MaxHops
    /\ RedirectWithLocation(st[r].rcvd[MaxHops])
    /\ ~st[r].forwardResult.ok

\* C16: within one inbound request the forwarder is called at most once, and
\* a failure is never followed by another outbound request: not a
\* non-redirect non-2xx answer, not the hop limit, not a network failure; an
\* answered inbound request issues nothing more.
C16_SinglePassNoRetry ==
  /\ [](\A r \in Reqs :
         LET s == st[r] IN
         /\ s.ncalls <= 1
         /\ s.called <=> s.ncalls = 1
         /\ Len(s.sent) > 0 => s.called
         /\ \A i \in 1..Len(s.rcvd) : s.rcvd[i].class = "other" => Len(s.sent) = i
         /\ s.forwardResult # NoResult => Len(s.sent) = Len(s.rcvd)
         /\ s.fetchFailed => (s.pc = "done" /\ Len(s.sent) = Len(s.rcvd) + 1))
  /\ [][\A r \in Reqs :
         (st[r].pc = "done" \/ st[r].fetchFailed \/ st[r].forwardResult # NoResult) =>
           (st'[r].sent = st[r].sent /\ st'[r].ncalls = st[r].ncalls)]_vars

\* C16 witness: the second request of the chain was answered 500 and the
\* inbound request ended with 502 after those two requests.
C16_Witness ==
  \E r \in Reqs :
    /\ st[r].pc = "done"
    /\ st[r].ncalls = 1
    /\ Len(st[r].sent) = 2
    /\ st[r].lastResp.status = 500
    /\ st[r].res.status = 502

\* The last answer is a redirect without a (non-empty) Location header or a
\* status that is neither 2xx nor a redirect.
EndsChain(s) ==
  /\ Len(s.rcvd) >= 1
  /\ LET last == s.rcvd[Len(s.rcvd)] IN
       \/ last.class = "redirect" /\ last.loc.k \in {"none", "empty"}
       \/ last.class = "other"

\* C17: a redirect status without a Location header, and any other non-2xx
\* status, ends the forwarder at once: ok = false, the status and the body of
\* that response, the hop count as it was (the number of redirects followed
\* before it), and no further request.
C17_NoLocationOrFailureEnds ==
  \A r \in Reqs :
    LET s == st[r] IN
    EndsChain(s) =>
      /\ s.pc = "done"
      /\ s.forwardResult # NoResult
      /\ ~s.forwardResult.ok
      /\ s.forwardResult.status = s.lastResp.status
      /\ s.forwardResult.text = safeText_(s.lastResp)
      /\ s.forwardResult.hops = Len(s.rcvd) - 1
      /\ Len(s.sent) = Len(s.rcvd)
      /\ s.res.status = 502

\* C17 witness: after one followed redirect the destination answers 302
\* without a Location header.
C17_Witness ==
  \E r \in Reqs :
    /\ EndsChain(st[r])
    /\ Len(st[r].rcvd) = 2
    /\ st[r].lastResp.status = 302
    /\ st[r].lastResp.loc = NoLoc
    /\ st[r].forwardResult.status = 302
    /\ st[r].forwardResult.hops = 1

\* The request was answered before any delivery step, with this status.
EndsEarly(s, code) ==
  /\ s.pc = "done"
  /\ s.res.status = code
  /\ s.nres = 1
  /\ ~s.called
  /\ ~s.simplifyThrew
  /\ s.sent = <<>>

\* The handler went on to the delivery step: it simplified the event and,
\* unless the simplifier raised, called the destination.
ReachedDelivery(s) ==
  /\ s.called \/ s.simplifyThrew
  /\ s.called => (Len(s.sent) >= 1 /\ s.sent[1].url = APPS_SCRIPT_WEBHOOK_URL)

\* The checks of the request orchestrator from verification on, in order.
FromVerification(s) ==
  IF ~ValidlySigned(s) THEN EndsEarly(s, 400)
  ELSE IF s.event.type \notin allowedTypes
    THEN EndsEarly(s, 200) /\ s.res.body \in {"Ignored", "Ignored event type"}
  ELSE IF ~Configured THEN EndsEarly(s, 500) /\ s.res.body = "Server misconfigured"
  ELSE ReachedDelivery(s)

\* C18 as stated: in either handler the checks apply in the order missing
\* signature header (400), verification failure (400), type not allowed
\* (200 ignored), destination or shared secret unconfigured (500), delivery,
\* and the first applicable one ends the request.
C18_FiveChecksInOrder ==
  \A r \in Reqs :
    Arrived(st[r]) =>
      IF SigMissing(st[r].sig) THEN EndsEarly(st[r], 400)
      ELSE FromVerification(st[r])

\* C18 amended: the checks apply in the order missing signature header
\* (400), then in src/stripe-webhook-forwarder/index.js only an unset signing
\* secret (500), then verification failure (400), type not allowed (200
\* ignored), destination or shared secret unconfigured (500), delivery, and
\* the first applicable one ends the request. In particular a verified event
\* of a disallowed type is answered 200 even when the destination is
\* unconfigured, and a request without a signature header is answered 400
\* under every configuration.
C18_ChecksInOrder ==
  \A r \in Reqs :
    LET s == st[r] IN
    Arrived(s) =>
      /\ IF SigMissing(s.sig) THEN EndsEarly(s, 400)
         ELSE IF s.impl = "forwarder" /\ STRIPE_WEBHOOK_SECRET = ""
           THEN EndsEarly(s, 500) /\ s.res.body = "Missing STRIPE_WEBHOOK_SECRET"
         ELSE FromVerification(s)
      /\ (s.verified /\ s.event.type \notin allowedTypes) => EndsEarly(s, 200)
      /\ s.sig \in {NoSig, EmptySig} => EndsEarly(s, 400)

\* C18 witness: src/stripe-webhook-forwarder/index.js has answered 200 to a
\* verified event of a disallowed type while the destination URL and the
\* shared secret are unset.
C18_Witness ==
  \E r \in Reqs :
    /\ st[r].impl = "forwarder"
    /\ st[r].verified
    /\ st[r].event.type \notin allowedTypes
    /\ APPS_SCRIPT_WEBHOOK_URL = NoUrl
    /\ BILLING_WEBHOOK_SHARED_SECRET = ""
    /\ EndsEarly(st[r], 200)

\* The forwarder has returned an outcome for the request.
Returned(s) == s.forwardResult # NoResult

\* The URL of the last request issued for the request.
LastRequested(s) == s.sent[Len(s.sent)].url

AloneStep(s, reply) ==
  IF s.pc # "fetching" THEN s
  ELSE IF reply.k = "failure" THEN OnFetchError(s)
  ELSE OnResponse(s, reply.resp)

RECURSIVE AloneAfter(_, _)
AloneAfter(s, replies) ==
  IF replies = <<>> THEN s
  ELSE AloneAfter(AloneStep(s, Head(replies)), Tail(replies))

\* The request handled alone: the handler run on its header and event, given
\* the replies the destination gave to its own outbound requests.
Alone(s) == AloneAfter(HandleRequest(ConcIdle, s.sig, s.event), s.replies)

\* C20: under every interleaving of two requests in flight, each request's
\* response and the outbound requests made for it are those of the same
\* request handled alone with the same downstream replies, and no step
\* changes the configuration (allow-set, secrets, destination URL).
C20_NoInterference ==
  /\ [](\A r \in DOMAIN st :
         Arrived(st[r]) =>
           /\ st[r].pc = Alone(st[r]).pc
           /\ st[r].res = Alone(st[r]).res
           /\ st[r].nres = Alone(st[r]).nres
           /\ st[r].sent = Alone(st[r]).sent
           /\ st[r].forwardResult = Alone(st[r]).forwardResult)
  /\ [][UNCHANGED config]_vars

\* C20 witness: two requests are in flight at once, one having followed a
\* redirect to another origin, the other two redirects on the first origin.
C20_Witness ==
  \E r \in DOMAIN st, q \in DOMAIN st :
    /\ r # q
    /\ st[r].pc = "fetching"
    /\ st[q].pc = "fetching"
    /\ Len(st[r].sent) = 2
    /\ Len(st[q].sent) = 3
    /\ st[r].currentUrl.origin # st[q].currentUrl.origin

====
